---- MODULE Spec2Model ----
(***************************************************************************)
(* Model of app.py, the institutional-ownership dashboard.                 *)
(*                                                                         *)
(* The program is a Streamlit script: every user interaction reruns the    *)
(* whole script from its first line.  One rerun is one action (Rerun).     *)
(* The state is what survives or is shown by a rerun: the workbook on      *)
(* disk, the two st.cache_data caches, the data frames and views the run   *)
(* built, and the export file it wrote.                                    *)
(*                                                                         *)
(* Data frames are sequences of records; a row keeps its pandas index      *)
(* label in the field idx.  Dates are naturals (NaT is a marker), floats   *)
(* are exact rationals with the non-finite values as separate kinds.       *)
(* pandas is taken with its 1.x/2.x behaviour.  The metric texts and the    *)
(* charts (to_million, f-strings, plotly) only display the values held     *)
(* here and are not modelled.                                              *)
(***************************************************************************)
EXTENDS Integers, Sequences, FiniteSets, TLC

VARIABLES
    fileExists,         \* os.path.exists(file_path)
    sheet1,             \* workbook sheet "Sheet1": [hasHeld, rows]
    instSheet,          \* workbook sheet "Institution_Holdings": [cols, rows]
    cacheData,          \* st.cache_data store of load_data: <<>> or <<df>>
    cacheInst,          \* st.cache_data store of load_institution_data
    status,             \* how the last rerun ended
    rendered,           \* the views the last rerun produced
    loaderCalls,        \* loader invocations made by the last rerun
    sourceAtLoad,       \* Sheet1 as it was on disk when the last rerun loaded
    df,                 \* main(): df
    inst_df,            \* main(): inst_df
    company,            \* main(): company
    selected_quarters,  \* main(): selected_quarters
    filtered_df,        \* main(): filtered_df
    view_columns,       \* the columns tab1/tab2 add to filtered_df
    first,              \* main(): first  (<<>> or <<row>>)
    latest,             \* main(): latest (<<>> or <<row>>)
    top10_institutions, \* main(): top10_institutions
    peers_df,           \* main(): peers_df
    top10_df,           \* main(): top10_df
    exportFile,         \* processed_ownership_data.xlsx: <<>> or <<rows>>
    reloaded            \* a second load_data, of the export (round trip)

vars == <<fileExists, sheet1, instSheet, cacheData, cacheInst, status, rendered,
          loaderCalls, sourceAtLoad, df, inst_df, company, selected_quarters,
          filtered_df, view_columns, first, latest, top10_institutions,
          peers_df, top10_df, exportFile, reloaded>>

(***************************************************************************)
(* Bounds of the model.                                                    *)
(***************************************************************************)
MaxRows == 3
MaxCacheRows == 1
MaxInstRows == 2
MaxRoundTripRows == 2

(***************************************************************************)
(* Sequences helpers.                                                      *)
(***************************************************************************)
Range(s) == {s[i] : i \in 1..Len(s)}

SeqsUpTo(S, n) == UNION {[1..k -> S] : k \in 0..n}

\* The function f on 1..n as a sequence value: f itself, written so that the
\* model checker holds it as a tuple and does not evaluate it again per use
AsSeq(f) == f \o <<>>

\* DataFrame.head(n)
head(s, n) == IF Len(s) <= n THEN s ELSE SubSeq(s, 1, n)

\* A stable sort of s by the integer keys (keys[i] is the key of s[i]),
\* ascending: what numpy's argsort gives on the short arrays of this model.
StableSort(s, keys) ==
    LET n == Len(s)
        rank(i) == Cardinality({j \in 1..n : \/ keys[j] < keys[i]
                                             \/ keys[j] = keys[i] /\ j < i}) + 1
        ranks == AsSeq([i \in 1..n |-> rank(i)])
    IN  AsSeq([k \in 1..n |-> s[CHOOSE i \in 1..n : ranks[i] = k]])

(***************************************************************************)
(* Floats: exact rationals n/d (d > 0, in lowest terms), +inf, -inf, NaN.  *)
(***************************************************************************)
RECURSIVE Gcd(_, _)
Gcd(a, b) == IF b = 0 THEN a ELSE Gcd(b, a % b)

Abs(x) == IF x < 0 THEN -x ELSE x

Fin(n, d) ==
    LET g == Gcd(Abs(n), d)
    IN  [k |-> "fin", n |-> n \div g, d |-> d \div g]

FNaN == [k |-> "nan", n |-> 0, d |-> 1]

FInf(sign) == [k |-> IF sign > 0 THEN "inf" ELSE "-inf", n |-> 0, d |-> 1]

\* a / b * c on integers a, b, c with c >= 0, as pandas computes it in floats
DivMul(a, b, c) ==
    IF b = 0
    THEN IF a = 0 THEN FNaN ELSE FInf(a)
    ELSE IF b > 0 THEN Fin(a * c, b) ELSE Fin(-(a * c), -b)

(***************************************************************************)
(* Dates.  A valid quarter date is a natural >= 1; consecutive dates 1, 2  *)
(* fall in one month, so the "%b %Y" label does not determine the date.    *)
(***************************************************************************)
NaT == 0

DateCell(q) == [k |-> "date", q |-> q]
TextCell == [k |-> "text", q |-> 0]
BlankCell == [k |-> "blank", q |-> 0]

\* The quarter cells of the dashboard runs: two months and an unparsable text
QuarterCells == {DateCell(2), DateCell(3), TextCell}

\* pd.to_datetime(col, errors="coerce") on one cell
to_datetime(cell) == IF cell.k = "date" THEN cell.q ELSE NaT

\* .dt.strftime("%b %Y") on one value; label 0 is the NaN label of NaT
strftime(q) == IF q = NaT THEN 0 ELSE (q + 1) \div 2

(***************************************************************************)
(* OwnershipDatasetLoader: load_data.                                      *)
(*                                                                         *)
(* A Sheet1 row, as pd.read_excel returns it, holds one cell per column:   *)
(* the numeric columns hold integers, quarter_date a date/text/blank cell, *)
(* InstitutionShareHeld a float (read only when the column is present).    *)
(***************************************************************************)
\* load_data_row with the net change computed in place, in the bought column
load_data_row_in_place(hasHeld, r, i) ==
    LET qd  == to_datetime(r.quarter_date)
        net == r.InstitutionSharesBought - r.InstitutionSharesSold
        own == DivMul(r.InstitutionPercentHeld, 100, r.Total_SharesOutstanding)
    IN  [idx                       |-> i - 1,
         Company_symbol            |-> r.Company_symbol,
         industry                  |-> r.industry,
         quarter_date              |-> qd,
         quarter_date_str          |-> strftime(qd),
         InstitutionPercentHeld    |-> r.InstitutionPercentHeld,
         InstitutionSharesBought   |-> net,
         InstitutionSharesSold     |-> r.InstitutionSharesSold,
         Total_SharesOutstanding   |-> r.Total_SharesOutstanding,
         NetSharesChange           |-> net,
         PercentChangeHeld         |-> DivMul(net, r.Total_SharesOutstanding, 100),
         InstitutionOwnershipValue |-> own,
         InstitutionShareHeld      |-> IF hasHeld THEN r.InstitutionShareHeld ELSE own]

load_data_row(hasHeld, r, i) ==
    LET qd  == to_datetime(r.quarter_date)
        net == r.InstitutionSharesBought - r.InstitutionSharesSold
        own == DivMul(r.InstitutionPercentHeld, 100, r.Total_SharesOutstanding)
    IN  [idx                       |-> i - 1,
         Company_symbol            |-> r.Company_symbol,
         industry                  |-> r.industry,
         quarter_date              |-> qd,
         quarter_date_str          |-> strftime(qd),
         InstitutionPercentHeld    |-> r.InstitutionPercentHeld,
         InstitutionSharesBought   |-> r.InstitutionSharesBought,
         InstitutionSharesSold     |-> r.InstitutionSharesSold,
         Total_SharesOutstanding   |-> r.Total_SharesOutstanding,
         NetSharesChange           |-> net,
         PercentChangeHeld         |-> DivMul(net, r.Total_SharesOutstanding, 100),
         InstitutionOwnershipValue |-> own,
         InstitutionShareHeld      |-> IF hasHeld THEN r.InstitutionShareHeld ELSE own]

load_data(sheet) ==
    AsSeq([i \in 1..Len(sheet.rows) |-> load_data_row(sheet.hasHeld, sheet.rows[i], i)])

(***************************************************************************)
(* InstitutionHoldingsLoader: load_institution_data.                       *)
(*                                                                         *)
(* A cell of a numeric column is a number, a text that reads as a number,  *)
(* any other text, or blank; "absent" stands for a column the sheet lacks. *)
(***************************************************************************)
numeric_cols == {"total_market_value", "total_shares", "share_change",
                 "share_change_percentage"}

NumCell(v) == [k |-> "num", v |-> v]
NumTextCell(v) == [k |-> "numtext", v |-> v]
NaTextCell == [k |-> "text", v |-> 0]
EmptyCell == [k |-> "blank", v |-> 0]
AbsentCell == [k |-> "absent", v |-> 0]
NaNCell == [k |-> "nan", v |-> 0]

\* pd.to_numeric(col, errors="coerce") on one cell
to_numeric(cell) == IF cell.k \in {"num", "numtext"} THEN NumCell(cell.v) ELSE NaNCell

\* fillna0 with the fill left out
fillna0_left_out(cell) == cell

\* .fillna(0) on one value
fillna0(cell) == IF cell.k = "nan" THEN NumCell(0) ELSE cell

coerce_col(cols, col, cell) == IF col \in cols THEN fillna0(to_numeric(cell)) ELSE cell

load_institution_data(sheet) ==
    AsSeq([i \in 1..Len(sheet.rows) |->
        LET r == sheet.rows[i]
        IN  [idx                     |-> i - 1,
             Company_symbol          |-> r.Company_symbol,
             owner_name              |-> r.owner_name,
             total_market_value      |-> coerce_col(sheet.cols, "total_market_value", r.total_market_value),
             total_shares            |-> coerce_col(sheet.cols, "total_shares", r.total_shares),
             share_change            |-> coerce_col(sheet.cols, "share_change", r.share_change),
             share_change_percentage |-> coerce_col(sheet.cols, "share_change_percentage", r.share_change_percentage)]])

(***************************************************************************)
(* st.cache_data: Streamlit keys the stored result on the function and its *)
(* arguments.  Both loaders are called with the constant file_path, so     *)
(* each cache holds at most one entry, and a hit does not read the file.   *)
(* A miss runs the loader, which raises when the file cannot be read.      *)
(***************************************************************************)
cache_data(cache, exists, loaded) ==
    IF cache # <<>>
    THEN [raised |-> FALSE, value |-> cache[1], cache |-> cache]
    ELSE IF ~exists
         THEN [raised |-> TRUE, value |-> <<>>, cache |-> cache]
         ELSE [raised |-> FALSE, value |-> loaded, cache |-> <<loaded>>]

(***************************************************************************)
(* main(): the filters (lines 71-81).                                      *)
(***************************************************************************)
\* The company symbols of the model, in the order pandas sorts group keys.
SymbolsSorted == <<"A", "B", "P01", "P02", "P03", "P04", "P05", "P06",
                   "P07", "P08", "P09", "P10", "P11">>

\* What st.sidebar.selectbox returns when it has no option.
NoCompany == "None"

\* company_list: the values the selectbox offers
company_list(d) ==
    IF d = <<>> THEN {NoCompany} ELSE {r.Company_symbol : r \in Range(d)}

\* df[df["Company_symbol"] == company]
filter_by_company(d, c) ==
    LET Keep(r) == r.Company_symbol = c IN SelectSeq(d, Keep)

\* .sort_values("quarter_date"): ascending, rows without a date last
\* (na_position="last"), each part in its former order among equal dates
sort_values_quarter_date(d) ==
    LET Dated(r) == r.quarter_date # NaT
        Undated(r) == r.quarter_date = NaT
        dated == SelectSeq(d, Dated)
    IN  StableSort(dated, AsSeq([i \in 1..Len(dated) |-> dated[i].quarter_date]))
        \o SelectSeq(d, Undated)

\* filtered_df["quarter_date_str"].unique(): the options of the multiselect
quarter_list(f) == {r.quarter_date_str : r \in Range(f)}

\* filtered_df[filtered_df["quarter_date_str"].isin(selected_quarters)];
\* isin matches the NaN label with the NaN label
filter_by_quarters(f, sel) ==
    LET Keep(r) == r.quarter_date_str \in sel IN SelectSeq(f, Keep)

\* empty_guard with the check left out
empty_guard_left_out(f) == FALSE

\* if filtered_df.empty: st.warning(...); st.stop()
empty_guard(f) == f = <<>>

(***************************************************************************)
(* main(): the views (lines 86-216).                                       *)
(***************************************************************************)
\* filtered_df.iloc[0] and filtered_df.iloc[-1]; IndexError on an empty frame
iloc_first(f) == IF f = <<>> THEN <<>> ELSE <<f[1]>>
iloc_last(f) == IF f = <<>> THEN <<>> ELSE <<f[Len(f)]>>

\* tab1 and tab2: OwnershipCombined and NetChangeDiff, set on filtered_df
add_view_columns(f) ==
    AsSeq([i \in 1..Len(f) |->
        [OwnershipCombined |-> <<f[i].InstitutionPercentHeld, f[i].InstitutionShareHeld>>,
         NetChangeDiff     |-> IF i = 1 THEN 0
                               ELSE f[i].NetSharesChange - f[i - 1].NetSharesChange]])

\* .sort_values(col, ascending=False) on integer keys, equal keys in their
\* former order
sort_descending(d, keys) == StableSort(d, AsSeq([i \in 1..Len(d) |-> -keys[i]]))

\* tab3: company_inst.sort_values("total_shares", ascending=False).head(10)
TopN == 10

top_institutions(inst, c) ==
    LET Keep(r) == r.Company_symbol = c
        company_inst == SelectSeq(inst, Keep)
    IN  head(sort_descending(company_inst,
                             AsSeq([i \in 1..Len(company_inst) |-> company_inst[i].total_shares.v])),
             TopN)

\* The group keys of groupby("Company_symbol"), sorted
group_keys(d) ==
    LET syms == {d[i].Company_symbol : i \in 1..Len(d)}
        Present(sym) == sym \in syms
    IN  SelectSeq(SymbolsSorted, Present)

\* Series.idxmax() of quarter_date over the rows of d with symbol sym: the
\* index label of the first row holding the greatest date, NaT skipped;
\* NoLabel (NaN) when the group holds no date at all
NoLabel == -1

idxmax(d, sym) ==
    LET grp == {i \in 1..Len(d) : d[i].Company_symbol = sym /\ d[i].quarter_date # NaT}
    IN  IF grp = {} THEN NoLabel
        ELSE LET top == CHOOSE i \in grp : \A j \in grp :
                            \/ d[j].quarter_date < d[i].quarter_date
                            \/ d[j].quarter_date = d[i].quarter_date /\ i <= j
             IN  d[top].idx

\* .loc[label] on a frame whose labels are unique
loc(d, label) == CHOOSE r \in Range(d) : r.idx = label

\* One row per group, by idxmax; .loc raises KeyError on the NaN label
latest_per_company(d) ==
    LET keys == group_keys(d)
        labels == AsSeq([i \in 1..Len(keys) |-> idxmax(d, keys[i])])
    IN  IF \E i \in 1..Len(keys) : labels[i] = NoLabel
        THEN [raised |-> TRUE, table |-> <<>>]
        ELSE [raised |-> FALSE,
              table  |-> AsSeq([i \in 1..Len(keys) |-> loc(d, labels[i])])]

sort_by_percent_held(d) ==
    sort_descending(d, AsSeq([i \in 1..Len(d) |-> d[i].InstitutionPercentHeld]))

\* industry_peers without the exclusion of the selected company
industry_peers_with_focal(d, industry, c) ==
    LET Keep(r) == r.industry = industry IN SelectSeq(d, Keep)

\* tab4, peers: lines 198-202
industry_peers(d, industry, c) ==
    LET Keep(r) == r.industry = industry /\ r.Company_symbol # c
    IN  SelectSeq(d, Keep)

peers_by_industry(d, industry, c) ==
    LET g == latest_per_company(industry_peers(d, industry, c))
    IN  [raised |-> g.raised, table |-> head(sort_by_percent_held(g.table), TopN)]

\* tab4, top 10: lines 210-211
top10_companies(d) ==
    LET g == latest_per_company(d)
    IN  [raised |-> g.raised, table |-> head(sort_by_percent_held(g.table), TopN)]

(***************************************************************************)
(* main(): the export (lines 221-226).  to_excel(index=False) drops the    *)
(* index and writes one cell per value: a date as a date cell, NaT and NaN *)
(* as blank cells, an infinity as the text "inf".  read_excel reads a      *)
(* blank number cell back as NaN.                                          *)
(***************************************************************************)
excel_date_cell(q) == IF q = NaT THEN BlankCell ELSE DateCell(q)

excel_float_cell(x) ==
    IF x.k \in {"inf", "-inf"} THEN [k |-> "text", n |-> 0, d |-> 1] ELSE x

to_excel_row(r) ==
    [Company_symbol            |-> r.Company_symbol,
     industry                  |-> r.industry,
     quarter_date              |-> excel_date_cell(r.quarter_date),
     quarter_date_str          |-> r.quarter_date_str,
     InstitutionPercentHeld    |-> r.InstitutionPercentHeld,
     InstitutionSharesBought   |-> r.InstitutionSharesBought,
     InstitutionSharesSold     |-> r.InstitutionSharesSold,
     Total_SharesOutstanding   |-> r.Total_SharesOutstanding,
     NetSharesChange           |-> r.NetSharesChange,
     PercentChangeHeld         |-> excel_float_cell(r.PercentChangeHeld),
     InstitutionOwnershipValue |-> excel_float_cell(r.InstitutionOwnershipValue),
     InstitutionShareHeld      |-> excel_float_cell(r.InstitutionShareHeld)]

to_excel(d) ==
    [hasHeld |-> TRUE, rows |-> AsSeq([i \in 1..Len(d) |-> to_excel_row(d[i])])]

\* exported_frame handing over the filtered view
exported_frame_view(d, f) == f

\* The frame main() hands to to_excel: df, not filtered_df
exported_frame(d, f) == d

(***************************************************************************)
(* The workbooks the model runs on.                                        *)
(***************************************************************************)
SymbolIndustry == {<<"A", "Tech">>, <<"B", "Tech">>, <<"B", "Fin">>}

Sheet1Row(sym, ind, cell, pct, bought, sold, total, held) ==
    [Company_symbol          |-> sym,
     industry                |-> ind,
     quarter_date            |-> cell,
     InstitutionPercentHeld  |-> pct,
     InstitutionSharesBought |-> bought,
     InstitutionSharesSold   |-> sold,
     Total_SharesOutstanding |-> total,
     InstitutionShareHeld    |-> held]

\* The percentage a free row holds: different for every (symbol, industry,
\* quarter cell), in neither date nor symbol order
PctOf(sym, ind, cell) ==
    (IF sym = "A" THEN 12 ELSE IF ind = "Tech" THEN 16 ELSE 14)
    + 3 * ((2 * cell.q) % 5)

FreeRows ==
    {Sheet1Row(si[1], si[2], cell, PctOf(si[1], si[2], cell), 5, 3, 200, FNaN) :
        si \in SymbolIndustry, cell \in QuarterCells}

\* Eleven more companies with one Tech row each, enough peers for head(10)
\* to cut; the first of them has a later row filed under Fin
PeerBlock ==
    AsSeq([i \in 1..11 |->
        Sheet1Row(SymbolsSorted[i + 2], "Tech", DateCell(2), 10 + ((4 * i) % 11),
                  5, 3, 200, FNaN)])
    \o <<Sheet1Row("P01", "Fin", DateCell(3), 30, 5, 3, 200, FNaN)>>

NoHeldSheet(rows) == [hasHeld |-> FALSE, rows |-> rows]

MainSheets ==
    {NoHeldSheet(s) : s \in SeqsUpTo(FreeRows, MaxRows)}
    \cup {NoHeldSheet(s \o PeerBlock) : s \in SeqsUpTo(FreeRows, MaxRows - 2)}

InstRow(sym, owner, mv, shares, chg, chgpct) ==
    [Company_symbol          |-> sym,
     owner_name              |-> owner,
     total_market_value      |-> mv,
     total_shares            |-> shares,
     share_change            |-> chg,
     share_change_percentage |-> chgpct]

\* The holdings sheet of the dashboard runs: company A has holders, one of
\* them with a text in total_shares
MainInstSheet ==
    [cols |-> numeric_cols,
     rows |-> <<InstRow("A", "Fund1", NumCell(900), NumCell(30), NumCell(1), NumCell(2)),
                InstRow("A", "Fund2", NumCell(500), NaTextCell, EmptyCell, NumCell(0)),
                InstRow("A", "Fund3", NumCell(700), NumCell(40), NumTextCell(4), NaTextCell)>>]

(***************************************************************************)
(* One rerun of the script.                                                *)
(***************************************************************************)
\* file_missing with the check left out
file_missing_left_out(exists) == FALSE

\* if not os.path.exists(file_path): st.error(...); st.stop()
file_missing(exists) == ~exists

\* What a rerun leaves on the page and in the session.
Show(st, rend, calls, src, d, inst, c, sel, f, vc, fst, lst, t10i, peers, t10, exp) ==
    /\ status' = st
    /\ rendered' = rend
    /\ loaderCalls' = calls
    /\ sourceAtLoad' = src
    /\ df' = d
    /\ inst_df' = inst
    /\ company' = c
    /\ selected_quarters' = sel
    /\ filtered_df' = f
    /\ view_columns' = vc
    /\ first' = fst
    /\ latest' = lst
    /\ top10_institutions' = t10i
    /\ peers_df' = peers
    /\ top10_df' = t10
    /\ exportFile' = exp

\* Lines 83-226, run on a filtered frame f that passed the guard.  t10 is
\* top10_companies(d), which depends on neither filter.
Views(d, inst, c, sel, f, t10) ==
    IF f = <<>>
    THEN \* filtered_df.iloc[-1] raises IndexError
         Show("exception", {}, 2, <<sheet1>>, d, inst, c, sel, f, <<>>, <<>>, <<>>,
              <<>>, <<>>, <<>>, exportFile)
    ELSE LET lst   == iloc_last(f)
             fst   == iloc_first(f)
             vc    == add_view_columns(f)
             t10i  == top_institutions(inst, c)
             peers == peers_by_industry(d, lst[1].industry, c)
             upto3 == {"metrics", "tab1", "tab2", "tab3"}
         IN  IF peers.raised
             THEN Show("exception", upto3, 2, <<sheet1>>, d, inst, c, sel, f, vc,
                       fst, lst, t10i, <<>>, <<>>, exportFile)
             ELSE IF t10.raised
             THEN Show("exception", upto3 \cup {"peers"}, 2, <<sheet1>>, d, inst, c,
                       sel, f, vc, fst, lst, t10i, peers.table, <<>>, exportFile)
             ELSE Show("ok", upto3 \cup {"peers", "top10", "export"}, 2, <<sheet1>>,
                       d, inst, c, sel, f, vc, fst, lst, t10i, peers.table, t10.table,
                       <<to_excel(exported_frame(d, f))>>)

Rerun ==
    /\ UNCHANGED <<fileExists, sheet1, instSheet, reloaded>>
    /\ IF file_missing(fileExists)
       THEN /\ Show("fatal_file_missing", {}, 0, <<>>, <<>>, <<>>, NoCompany, {}, <<>>,
                    <<>>, <<>>, <<>>, <<>>, <<>>, <<>>, exportFile)
            /\ UNCHANGED <<cacheData, cacheInst>>
       ELSE LET ld == cache_data(cacheData, fileExists, load_data(sheet1))
                li == cache_data(cacheInst, fileExists, load_institution_data(instSheet))
                t10 == top10_companies(ld.value)
            IN  IF ld.raised
                THEN /\ Show("exception", {}, 1, <<>>, <<>>, <<>>, NoCompany, {}, <<>>,
                             <<>>, <<>>, <<>>, <<>>, <<>>, <<>>, exportFile)
                     /\ UNCHANGED <<cacheData, cacheInst>>
                ELSE IF li.raised
                THEN /\ Show("exception", {}, 2, <<sheet1>>, ld.value, <<>>, NoCompany,
                             {}, <<>>, <<>>, <<>>, <<>>, <<>>, <<>>, <<>>, exportFile)
                     /\ cacheData' = ld.cache
                     /\ UNCHANGED cacheInst
                ELSE /\ cacheData' = ld.cache
                     /\ cacheInst' = li.cache
                     /\ \E c \in company_list(ld.value) :
                          LET byCompany == sort_values_quarter_date(filter_by_company(ld.value, c))
                          IN  \E sel \in SUBSET quarter_list(byCompany) :
                                LET f == filter_by_quarters(byCompany, sel)
                                IN  IF empty_guard(f)
                                    THEN Show("warning_no_data", {}, 2, <<sheet1>>,
                                              ld.value, li.value, c, sel, f, <<>>, <<>>,
                                              <<>>, <<>>, <<>>, <<>>, exportFile)
                                    ELSE Views(ld.value, li.value, c, sel, f, t10)

InitSession ==
    /\ cacheData = <<>>
    /\ cacheInst = <<>>
    /\ status = "init"
    /\ rendered = {}
    /\ loaderCalls = 0
    /\ sourceAtLoad = <<>>
    /\ df = <<>>
    /\ inst_df = <<>>
    /\ company = NoCompany
    /\ selected_quarters = {}
    /\ filtered_df = <<>>
    /\ view_columns = <<>>
    /\ first = <<>>
    /\ latest = <<>>
    /\ top10_institutions = <<>>
    /\ peers_df = <<>>
    /\ top10_df = <<>>
    /\ exportFile = <<>>
    /\ reloaded = <<>>

Init ==
    /\ fileExists = TRUE
    /\ sheet1 \in MainSheets
    /\ instSheet = MainInstSheet
    /\ InitSession

Next == Rerun

Spec == Init /\ [][Next]_vars

(***************************************************************************)
(* The workbook changing under a running server.  The script reads the     *)
(* file only inside a rerun, so the changes are taken between reruns.      *)
(***************************************************************************)
CacheRows ==
    {Sheet1Row("A", "Tech", DateCell(2), 24, 5, 3, 200, FNaN),
     Sheet1Row("A", "Tech", TextCell, 12, 5, 3, 200, FNaN),
     Sheet1Row("B", "Tech", DateCell(3), 19, 5, 3, 200, FNaN)}

CacheSheets == {NoHeldSheet(s) : s \in SeqsUpTo(CacheRows, MaxCacheRows)}

ModifyFile ==
    /\ fileExists
    /\ \E s \in CacheSheets \ {sheet1} : sheet1' = s
    /\ UNCHANGED <<fileExists, instSheet, cacheData, cacheInst, status, rendered,
                   loaderCalls, sourceAtLoad, df, inst_df, company,
                   selected_quarters, filtered_df, view_columns, first, latest,
                   top10_institutions, peers_df, top10_df, exportFile, reloaded>>

DeleteFile ==
    /\ fileExists
    /\ fileExists' = FALSE
    /\ UNCHANGED <<sheet1, instSheet, cacheData, cacheInst, status, rendered,
                   loaderCalls, sourceAtLoad, df, inst_df, company,
                   selected_quarters, filtered_df, view_columns, first, latest,
                   top10_institutions, peers_df, top10_df, exportFile, reloaded>>

RestoreFile ==
    /\ ~fileExists
    /\ fileExists' = TRUE
    /\ UNCHANGED <<sheet1, instSheet, cacheData, cacheInst, status, rendered,
                   loaderCalls, sourceAtLoad, df, inst_df, company,
                   selected_quarters, filtered_df, view_columns, first, latest,
                   top10_institutions, peers_df, top10_df, exportFile, reloaded>>

InitCache ==
    /\ fileExists \in BOOLEAN
    /\ sheet1 \in CacheSheets
    /\ instSheet = MainInstSheet
    /\ InitSession

NextCache == Rerun \/ ModifyFile \/ DeleteFile \/ RestoreFile

SpecCache == InitCache /\ [][NextCache]_vars

(***************************************************************************)
(* load_institution_data on its own, over holdings sheets with every kind  *)
(* of cell and with numeric columns missing.                               *)
(***************************************************************************)
InstCells == {NumCell(5), NumTextCell(7), NaTextCell, EmptyCell}

InstCell(cols, col, cell) == IF col \in cols THEN cell ELSE AbsentCell

InstSheetRows(cols) ==
    {InstRow("A", "Fund", InstCell(cols, "total_market_value", y),
             InstCell(cols, "total_shares", x), InstCell(cols, "share_change", y),
             InstCell(cols, "share_change_percentage", x)) :
        x \in InstCells, y \in InstCells}

InstSheets ==
    UNION {{[cols |-> cols, rows |-> s] : s \in SeqsUpTo(InstSheetRows(cols), MaxInstRows)} :
              cols \in {numeric_cols, numeric_cols \ {"total_shares"}, {}}}

LoadInstitutions ==
    /\ status = "init"
    /\ status' = "loaded"
    /\ inst_df' = load_institution_data(instSheet)
    /\ UNCHANGED <<fileExists, sheet1, instSheet, cacheData, cacheInst, rendered,
                   loaderCalls, sourceAtLoad, df, company, selected_quarters,
                   filtered_df, view_columns, first, latest, top10_institutions,
                   peers_df, top10_df, exportFile, reloaded>>

InitInst ==
    /\ fileExists = TRUE
    /\ sheet1 = NoHeldSheet(<<>>)
    /\ instSheet \in InstSheets
    /\ InitSession

NextInst == LoadInstitutions

SpecInst == InitInst /\ [][NextInst]_vars

(***************************************************************************)
(* The round trip: the export a rerun wrote is read back by load_data.     *)
(***************************************************************************)
\* pd.read_excel of the exported workbook: its one sheet
read_excel(file) == file

RoundTripRows(hasHeld) ==
    {Sheet1Row("A", "Tech", cell, 45, 5, 3, total, IF hasHeld THEN held ELSE FNaN) :
        cell \in {DateCell(1), TextCell}, total \in {0, 200},
        held \in {Fin(90, 1), Fin(7, 2)}}

RoundTripSheets ==
    UNION {{[hasHeld |-> h, rows |-> s] : s \in SeqsUpTo(RoundTripRows(h), MaxRoundTripRows)} :
              h \in BOOLEAN}

ReloadExport ==
    /\ exportFile # <<>>
    /\ reloaded' = <<load_data(read_excel(exportFile[1]))>>
    /\ UNCHANGED <<fileExists, sheet1, instSheet, cacheData, cacheInst, status,
                   rendered, loaderCalls, sourceAtLoad, df, inst_df, company,
                   selected_quarters, filtered_df, view_columns, first, latest,
                   top10_institutions, peers_df, top10_df, exportFile>>

InitRoundTrip ==
    /\ fileExists = TRUE
    /\ sheet1 \in RoundTripSheets
    /\ instSheet = MainInstSheet
    /\ InitSession

NextRoundTrip == Rerun \/ ReloadExport

SpecRoundTrip == InitRoundTrip /\ [][NextRoundTrip]_vars

(***************************************************************************)
(* Properties.                                                             *)
(***************************************************************************)
\* The last rerun got as far as the filters (line 79).
ReachedFilters == status \in {"warning_no_data", "ok", "exception"} /\ loaderCalls = 2

\* The filtered frame of the last rerun, computed again from what it chose.
FilteredAgain ==
    filter_by_quarters(sort_values_quarter_date(filter_by_company(df, company)),
                       selected_quarters)

Dated(f) == {r \in Range(f) : r.quarter_date # NaT}

\* C1: when the filtered result is empty the rerun ends with the "no data"
\* warning and nothing downstream is computed: no first/latest record, no
\* metric, chart column, institution table, peers table, top-10 table, export.
C1_EmptyFilterHalts ==
    (ReachedFilters /\ FilteredAgain = <<>>) =>
        /\ status = "warning_no_data"
        /\ rendered = {}
        /\ first = <<>> /\ latest = <<>>
        /\ view_columns = <<>>
        /\ top10_institutions = <<>> /\ peers_df = <<>> /\ top10_df = <<>>

C1_Witness ==
    /\ status = "warning_no_data"
    /\ Len(df) >= 2
    /\ selected_quarters = {}
    /\ company \in {"A", "B"}

\* C2: a rerun that finds the workbook missing ends with the fatal error:
\* it calls neither loader, touches neither cache, builds no frame or view
\* and writes no export.  (A step that leaves the file as it is is a rerun.)
C2_MissingFileHalts ==
    [][(~fileExists /\ UNCHANGED <<fileExists, sheet1>>) =>
          /\ status' = "fatal_file_missing"
          /\ loaderCalls' = 0
          /\ cacheData' = cacheData /\ cacheInst' = cacheInst
          /\ df' = <<>> /\ inst_df' = <<>>
          /\ rendered' = {}
          /\ exportFile' = exportFile]_vars

C2_Witness ==
    /\ ~fileExists
    /\ status = "fatal_file_missing"
    /\ cacheData # <<>>
    /\ exportFile # <<>>

\* C3: load_institution_data keeps every row, in order; in each numeric
\* column the sheet has, a text or blank cell becomes 0 and a number (also
\* one written as text) keeps its value; other cells are left as they are.
C3_HoldingsNeverRejected ==
    status = "loaded" =>
        /\ Len(inst_df) = Len(instSheet.rows)
        /\ \A i \in 1..Len(inst_df) :
              LET src == instSheet.rows[i]
                  out == inst_df[i]
              IN  /\ out.Company_symbol = src.Company_symbol
                  /\ out.owner_name = src.owner_name
                  /\ out.idx = i - 1
                  /\ \A col \in numeric_cols :
                        IF col \in instSheet.cols
                        THEN /\ src[col].k \in {"text", "blank"} => out[col] = NumCell(0)
                             /\ src[col].k \in {"num", "numtext"} => out[col] = NumCell(src[col].v)
                        ELSE out[col] = src[col]

C3_Witness ==
    /\ status = "loaded"
    /\ Len(inst_df) = 2
    /\ instSheet.cols = numeric_cols
    /\ instSheet.rows[1].total_shares = NaTextCell
    /\ inst_df[1].total_shares = NumCell(0)
    /\ instSheet.rows[2].total_shares = NumCell(5)
    /\ instSheet.rows[2].share_change = EmptyCell

\* C4: the frame a rerun works on is the one derived from the workbook as it
\* is at that rerun, whatever was loaded before.
C4_LoadIsOfCurrentContent ==
    (ReachedFilters /\ sourceAtLoad # <<>>) => df = load_data(sourceAtLoad[1])

\* C5 (as claimed): every rerun that ends without an error, whatever the
\* selection, offers the export, and the export is the loaded table.
C5_ExportWhateverSelection ==
    status \in {"ok", "warning_no_data"} =>
        /\ "export" \in rendered
        /\ exportFile = <<to_excel(load_data(sheet1))>>

\* C5 (amended): the export is written exactly by the reruns that end "ok"
\* (a rerun with an empty filtered result stops before it); when written it
\* is the loaded table, all rows and columns, and df is still that table
\* after the views were built.
C5_ExportIsLoadedTable ==
    /\ "export" \in rendered <=> status = "ok"
    /\ "export" \in rendered =>
          /\ filtered_df # <<>>
          /\ df = load_data(sheet1)
          /\ exportFile = <<to_excel(load_data(sheet1))>>

C5_Witness ==
    /\ "export" \in rendered
    /\ Len(df) = 3
    /\ Len(filtered_df) = 1
    /\ Len(view_columns) = 1
    /\ Len(exportFile[1].rows) = 3

DerivedFields(r) ==
    <<r.NetSharesChange, r.PercentChangeHeld, r.InstitutionOwnershipValue,
      r.InstitutionShareHeld, r.quarter_date_str>>

C7_FirstAndLatest ==
    (ReachedFilters /\ FilteredAgain # <<>>) =>
        /\ first # <<>> /\ latest # <<>>
        /\ first[1] \in Range(FilteredAgain) /\ latest[1] \in Range(FilteredAgain)
        /\ Len(FilteredAgain) = 1 => first = latest
        /\ Dated(FilteredAgain) # {} =>
              /\ first[1].quarter_date # NaT
              /\ latest[1].quarter_date # NaT
              /\ \A r \in Dated(FilteredAgain) :
                    /\ first[1].quarter_date <= r.quarter_date
                    /\ r.quarter_date <= latest[1].quarter_date

Symbols(d) == {r.Company_symbol : r \in Range(d)}

\* r is the record of d that holds the greatest date of its company, the
\* first such in d
IsLatestOf(r, d) ==
    /\ r \in Range(d)
    /\ r.quarter_date # NaT
    /\ \A x \in Dated(d) :
          x.Company_symbol = r.Company_symbol =>
              \/ x.quarter_date < r.quarter_date
              \/ x.quarter_date = r.quarter_date /\ r.idx <= x.idx

\* C8: latestPerCompany over the loaded table gives one record per company
\* symbol, the one with the company's greatest date, the first in input
\* order among equals; a rerun that reaches line 210 has that table.
C8_LatestPerCompany ==
    (ReachedFilters /\ "peers" \in rendered) =>
        LET g == latest_per_company(df)
        IN  /\ ~g.raised
            /\ Len(g.table) = Cardinality(Symbols(df))
            /\ \A sym \in Symbols(df) :
                  \E i \in 1..Len(g.table) :
                      g.table[i].Company_symbol = sym /\ IsLatestOf(g.table[i], df)

HasDate(d, sym) == \E r \in Dated(d) : r.Company_symbol = sym

\* C9: a row without a date stays in the loaded table, and is never the
\* first or latest record, nor a company's row in the peers and top-10
\* tables, when the company has a dated record.
C9_UndatedExcluded ==
    /\ ReachedFilters => Len(df) = Len(sourceAtLoad[1].rows)
    /\ (first # <<>> /\ HasDate(df, company)) =>
          first[1].quarter_date # NaT /\ latest[1].quarter_date # NaT
    /\ \A r \in Range(peers_df) \cup Range(top10_df) :
          HasDate(df, r.Company_symbol) => r.quarter_date # NaT

PeerSymbols(d, industry, c) ==
    {r.Company_symbol : r \in {x \in Range(d) : x.industry = industry /\ x.Company_symbol # c}}

NonIncreasing(t) ==
    \A i \in 1..Len(t) - 1 : t[i].InstitutionPercentHeld >= t[i + 1].InstitutionPercentHeld

OncePerCompany(t) ==
    \A i, j \in 1..Len(t) : t[i].Company_symbol = t[j].Company_symbol => i = j

Min(a, b) == IF a < b THEN a ELSE b

\* The rows of d filed under the industry
FiledUnder(d, industry) ==
    LET Keep(r) == r.industry = industry IN SelectSeq(d, Keep)

\* C10 (as claimed): the peers table holds no row of the selected company
\* and only rows of its industry, one per peer company, the company's
\* latest among all its loaded records, at most 10 by falling percent held.
C10_PeersLatestOfAllRecords ==
    "peers" \in rendered =>
        /\ \A r \in Range(peers_df) :
              /\ r.Company_symbol # company
              /\ r.industry = latest[1].industry
              /\ IsLatestOf(r, df)
        /\ OncePerCompany(peers_df)
        /\ NonIncreasing(peers_df)
        /\ Len(peers_df) = Min(TopN, Cardinality(PeerSymbols(df, latest[1].industry, company)))

\* C10 (amended): as claimed, but a peer's row is its latest among its
\* loaded records filed under the selected company's industry.
C10_PeersLatestWithinIndustry ==
    "peers" \in rendered =>
        /\ \A r \in Range(peers_df) :
              /\ r.Company_symbol # company
              /\ r.industry = latest[1].industry
              /\ IsLatestOf(r, FiledUnder(df, latest[1].industry))
        /\ OncePerCompany(peers_df)
        /\ NonIncreasing(peers_df)
        /\ Len(peers_df) = Min(TopN, Cardinality(PeerSymbols(df, latest[1].industry, company)))

C10_Witness ==
    /\ "peers" \in rendered
    /\ company = "A"
    /\ Len(peers_df) = TopN
    /\ Cardinality(PeerSymbols(df, latest[1].industry, company)) > TopN
    /\ \E r \in Range(peers_df) : ~IsLatestOf(r, df)

====
